---- MODULE Spec2Model ----
(***************************************************************************)
(* State-machine model of DominoMixture (src/domino/domino.py): the       *)
(* multi-restart EM driver fit_predict, predict_proba, the label          *)
(* preprocessing and the parameter-tuple bookkeeping.                      *)
(*                                                                         *)
(* Floating-point values are records [k, v]: k is "fin" (v an integer on   *)
(* a coarse grid), "ninf", "pinf", "nan" or "unset" (attribute absent).    *)
(* A responsibility matrix is represented by the row of one sample; a      *)
(* fitted parameter array is represented by the responsibility row it was  *)
(* estimated from (_estimate_parameters is a pure function of resp for     *)
(* fixed data).  What the Gaussian log-density kernel returns on the data  *)
(* of a fit call is an input: each fit call draws a data set from          *)
(* DataSets, which fixes the kernel's result for every parameter tuple,    *)
(* so that evaluating the same parameters on the same data twice gives     *)
(* the same result.                                                        *)
(***************************************************************************)
EXTENDS Integers, Sequences, FiniteSets, TLC

\* ------------------------------------------------------------ bounds
MaxComponents == 4
MaxNInit == 2
MaxIter == 2
MaxLB == 1
MaxYLabel == 1
MaxFits == 2

VARIABLES
    \* constructor arguments (GaussianMixture.__init__ keyword arguments)
    n_components, init_params, n_init, max_iter, tol, warm_start,
    weight_y_log_likelihood,
    \* fitted attributes of the estimator
    params, converged_, n_iter_, lower_bound_,
    \* frame of a running fit_predict call
    pc, do_init, num_classes, init, n_iter, lower_bound, max_lower_bound,
    best_params, best_n_iter,
    \* the data (X, y, y_hat) of the last fit call
    data,
    \* observation of calls: outcome of the last predict_proba, outcome of
    \* the last fit call, whether some fit call has completed, estimator
    \* state at fit entry, per-restart lower bounds and parameters, warning
    \* flag, number of fit calls made
    ret, fit, fitted, before, runs, warned, nfits,
    \* one application of a pure function of the module: the function applied
    \* ("none" before the call), its argument and its result
    pure_fn, pure_in, pure_out,
    \* object identity of the parameter arrays: the arrays allocated so far,
    \* the array each attribute of the estimator is bound to, the arrays the
    \* best_params tuple holds, and the contents they had when it was taken
    heap, self_refs, best_refs, snapshot

cfgVars == <<n_components, init_params, n_init, max_iter, tol, warm_start,
             weight_y_log_likelihood>>
selfVars == <<params, converged_, n_iter_, lower_bound_>>
frameVars == <<pc, do_init, num_classes, init, n_iter, lower_bound,
               max_lower_bound, best_params, best_n_iter>>
obsVars == <<ret, fit, fitted, before, runs, warned, nfits>>
fitVars == <<cfgVars, selfVars, frameVars, data, obsVars>>
pureVars == <<pure_fn, pure_in, pure_out>>
heapVars == <<heap, self_refs, best_refs, snapshot>>
vars == <<fitVars, pureVars, heapVars>>

\* ------------------------------------------------------------ floats
Fin(n) == [k |-> "fin", v |-> n]
NegInf == [k |-> "ninf", v |-> 0]
PosInf == [k |-> "pinf", v |-> 0]
NaN == [k |-> "nan", v |-> 0]
UnsetF == [k |-> "unset", v |-> 0]

\* a > b on floats: false whenever either side is NaN
FGt(a, b) ==
    CASE a.k = "nan" \/ b.k = "nan" -> FALSE
      [] a.k = "pinf" -> b.k # "pinf"
      [] a.k = "ninf" -> FALSE
      [] b.k = "ninf" -> TRUE
      [] b.k = "pinf" -> FALSE
      [] OTHER -> a.v > b.v

\* a - b on floats
FSub(a, b) ==
    CASE a.k = "nan" \/ b.k = "nan" -> NaN
      [] a.k = "fin" /\ b.k = "fin" -> Fin(a.v - b.v)
      [] a.k = b.k -> NaN
      [] a.k = "pinf" \/ b.k = "ninf" -> PosInf
      [] OTHER -> NegInf

\* abs(a)
FAbs(a) ==
    CASE a.k = "fin" -> Fin(IF a.v < 0 THEN 0 - a.v ELSE a.v)
      [] a.k = "ninf" -> PosInf
      [] OTHER -> a

\* a < b on floats
FLt(a, b) == FGt(b, a)

\* a + b on floats
FAdd(a, b) ==
    CASE a.k = "nan" \/ b.k = "nan" -> NaN
      [] a.k = "fin" /\ b.k = "fin" -> Fin(a.v + b.v)
      [] a.k = "fin" -> b
      [] b.k = "fin" -> a
      [] a.k = b.k -> a
      [] OTHER -> NaN

\* a * w for an integer weight w >= 0
FScale(a, w) ==
    CASE a.k = "fin" -> Fin(a.v * w)
      [] a.k = "nan" -> NaN
      [] w = 0 -> NaN
      [] OTHER -> a

\* ------------------------------------------------------------ rows
\* A row holds one value per component, for one representative sample.
FlatRow(K, v) == [j \in 1..K |-> Fin(v)]
PeakRow(K) == [j \in 1..K |-> Fin(IF j = K THEN 2 ELSE 0)]
NaNRow(K) == [j \in 1..K |-> NaN]

RowAdd(a, b) == [j \in 1..Len(a) |-> FAdd(a[j], b[j])]
RowScale(a, w) == [j \in 1..Len(a) |-> FScale(a[j], w)]
RowSubScalar(a, x) == [j \in 1..Len(a) |-> FSub(a[j], x)]
HasNaN(a) == \E j \in 1..Len(a) : a[j].k = "nan"

\* smallest c with 2^c >= t
CeilLog2(t) == CHOOSE c \in 0..t : 2^c >= t /\ \A d \in 0..(c - 1) : 2^d < t

\* logsumexp over a row, base 2, rounded up to the grid
LogSumExp(a) ==
    IF HasNaN(a) THEN NaN
    ELSE LET m == CHOOSE x \in {a[j].v : j \in 1..Len(a)} :
                      \A j \in 1..Len(a) : a[j].v <= x
             t == Cardinality({j \in 1..Len(a) : a[j].v = m})
         IN  Fin(m + CeilLog2(t))

\* np.exp on a row, base 2, fixed point with 16 for 1.0, underflow to 0
Exp(a) ==
    [j \in 1..Len(a) |->
        IF a[j].k = "nan" THEN NaN
        ELSE IF a[j].k = "ninf" \/ (a[j].k = "fin" /\ a[j].v < -4) THEN Fin(0)
        ELSE IF a[j].k = "pinf" THEN PosInf
        ELSE IF a[j].v >= 0 THEN Fin(16 * 2^(a[j].v))
        ELSE Fin(16 \div 2^(0 - a[j].v))]

\* ndarray.argmax over a row: first index of the maximum, NaN counting as
\* the maximum
Argmax(a) ==
    IF HasNaN(a) THEN CHOOSE j \in 1..Len(a) :
                          a[j].k = "nan" /\ \A i \in 1..(j - 1) : a[i].k # "nan"
    ELSE CHOOSE j \in 1..Len(a) :
             /\ \A i \in 1..Len(a) : ~FGt(a[i], a[j])
             /\ \A i \in 1..(j - 1) : FGt(a[j], a[i])

Unset == <<>>
NoParams == [weights_ |-> Unset, means_ |-> Unset, covariances_ |-> Unset,
             y_probs |-> Unset, y_hat_probs |-> Unset,
             precisions_cholesky_ |-> Unset]


\* ------------------------------------------------------------ data sets
\* A data set fixes what the Gaussian kernel returns for each parameter
\* tuple: the tuple is classified by the component its means were mostly
\* estimated from, and the data set names the embedding row of each class.
\* X is validated to be finite; y_hat is not, and one data set has NaN in it.
DataSets ==
    [flat  |-> [first |-> "flat0",   mid |-> "flat0",   last |-> "flat0",
                y_hat_nan |-> FALSE],
     climb |-> [first |-> "peak",    mid |-> "flatmax", last |-> "flat0",
                y_hat_nan |-> FALSE],
     drop  |-> [first |-> "flatmax", mid |-> "peak",    last |-> "flat0",
                y_hat_nan |-> FALSE],
     tie   |-> [first |-> "flat0",   mid |-> "flatmax", last |-> "peak",
                y_hat_nan |-> FALSE],
     nan   |-> [first |-> "flat0",   mid |-> "flat0",   last |-> "flat0",
                y_hat_nan |-> TRUE]]
DataNames == DOMAIN DataSets

RowByTag(tag, K) ==
    CASE tag = "flat0" -> FlatRow(K, 0)
      [] tag = "flatmax" -> FlatRow(K, MaxLB)
      [] OTHER -> PeakRow(K)

ClassOf(row) ==
    LET j == Argmax(row)
    IN  IF j = 1 THEN "first" ELSE IF j = Len(row) THEN "last" ELSE "mid"

\* _estimate_log_prob(X) + _estimate_log_weights() on data set d: NaN
\* parameters give NaN, otherwise the row the data set names
EstimateLogProbAndWeights(d, p) ==
    LET K == Len(p.means_)
    IN  IF HasNaN(p.weights_) \/ HasNaN(p.means_)
           \/ HasNaN(p.precisions_cholesky_)
        THEN NaNRow(K)
        ELSE RowByTag(DataSets[d][ClassOf(p.means_)], K)

\* DominoMixture._estimate_y_log_prob: the data make the first component
\* less likely under y
EstimateYLogProb(p) ==
    LET K == Len(p.means_)
    IN  IF HasNaN(p.y_probs) THEN NaNRow(K)
        ELSE [j \in 1..K |-> Fin(IF j = 1 THEN -1 ELSE 0)]

\* DominoMixture._estimate_y_hat_log_prob: the data make the last component
\* less likely under y_hat; NaN in y_hat or in y_hat_probs gives NaN
EstimateYHatLogProb(d, p) ==
    LET K == Len(p.means_)
    IN  IF DataSets[d].y_hat_nan \/ HasNaN(p.y_hat_probs) THEN NaNRow(K)
        ELSE [j \in 1..K |-> Fin(IF j = K THEN -1 ELSE 0)]


\* the label terms added without the label-likelihood weight
EstimateWeightedLogProbUnscaled(d, p, weight, yGiven, yhatGiven) ==
    LET a == EstimateLogProbAndWeights(d, p)
        b == IF yGiven THEN RowAdd(a, EstimateYLogProb(p)) ELSE a
    IN  IF yhatGiven THEN RowAdd(b, EstimateYHatLogProb(d, p)) ELSE b

\* DominoMixture._estimate_weighted_log_prob: the embedding and mixture-weight
\* terms, plus each label term that is not None, scaled by the weight
EstimateWeightedLogProb(d, p, weight, yGiven, yhatGiven) ==
    LET a == EstimateLogProbAndWeights(d, p)
        b == IF yGiven THEN RowAdd(a, RowScale(EstimateYLogProb(p), weight))
             ELSE a
    IN  IF yhatGiven
        THEN RowAdd(b, RowScale(EstimateYHatLogProb(d, p), weight))
        ELSE b

\* DominoMixture._estimate_log_prob_resp
EstimateLogProbResp(d, p, weight, yGiven, yhatGiven) ==
    LET wlp == EstimateWeightedLogProb(d, p, weight, yGiven, yhatGiven)
        log_prob_norm == LogSumExp(wlp)
    IN  [log_prob_norm |-> log_prob_norm,
         log_resp |-> RowSubScalar(wlp, log_prob_norm)]

\* DominoMixture._e_step: the mean of log_prob_norm over the samples (one
\* representative sample) and the log-responsibilities
EStep(d, p, weight) == EstimateLogProbResp(d, p, weight, TRUE, TRUE)

\* ------------------------------------------------------------ label inputs
\* DominoMixture._preprocess_ys.  y is None or an integer label vector with
\* largest label ymax; y_hat is None ("none"), a 1-D probability vector
\* ("1d") or a matrix ("2d").  label_binarize gives one column for at most two
\* classes, which is expanded to two; y_hat is expanded only inside a test
\* of y.
PreprocessYs(yGiven, ymax, yhat) ==
    [raises |-> yGiven /\ yhat = "none",
     y_cols |-> IF ~yGiven THEN 0
                ELSE IF ymax + 1 <= 2 THEN 2 ELSE ymax + 1,
     y_hat |-> IF yGiven /\ yhat = "1d" THEN "2d" ELSE yhat]


\* "error" initialization raising also at exactly num_classes^2 components
ErrorInitTooFewOrEqual(K, C) == K <= C * C

\* the condition under which "error" initialization raises
ErrorInitTooFewComponents(K, C) == K < C * C

\* DominoMixture._initialize_parameters up to the call of _initialize:
\* "ok", or the configuration error raised
InitializeParametersCheck(ip, K, C) ==
    IF ip = "kmeans" \/ ip = "random" THEN "ok"
    ELSE IF ip = "error"
         THEN IF ErrorInitTooFewComponents(K, C) THEN "ConfigError" ELSE "ok"
    ELSE "ConfigError"

\* responsibility rows the initialization strategies can produce (fixed point,
\* 16 for 1.0): a hard assignment for k-means, any normalized row otherwise
OneHotRow(K, j) == [i \in 1..K |-> Fin(IF i = j THEN 16 ELSE 0)]
InitResps(ip, K) ==
    IF ip = "kmeans" THEN {OneHotRow(K, 1), OneHotRow(K, K)}
    ELSE {OneHotRow(K, K), Exp(FlatRow(K, 0 - CeilLog2(K)))}

\* DominoMixture._get_parameters
GetParameters == params

\* check_is_fitted(self): some attribute whose name ends in "_" is set
IsFitted ==
    \/ converged_ # "unset"
    \/ n_iter_ # 0
    \/ lower_bound_ # UnsetF
    \/ params.weights_ # Unset
    \/ params.means_ # Unset
    \/ params.covariances_ # Unset
    \/ params.precisions_cholesky_ # Unset

\* attributes an evaluation of the log-responsibilities reads
EStepReadable(p, yGiven, yhatGiven) ==
    /\ p.weights_ # Unset /\ p.means_ # Unset /\ p.precisions_cholesky_ # Unset
    /\ yGiven => p.y_probs # Unset
    /\ yhatGiven => p.y_hat_probs # Unset

NoRet == [op |-> "none", status |-> "ok", resp |-> Unset,
          y |-> FALSE, y_hat |-> "none"]
NoFit == [status |-> "none", labels |-> 0]
SelfState == [params |-> params, converged_ |-> converged_,
              n_iter_ |-> n_iter_, lower_bound_ |-> lower_bound_]

ClearFrame ==
    /\ pc' = "idle"
    /\ do_init' = TRUE /\ num_classes' = 0 /\ init' = 0 /\ n_iter' = 0
    /\ lower_bound' = UnsetF /\ max_lower_bound' = UnsetF
    /\ best_params' = NoParams /\ best_n_iter' = 0

\* fit_predict raises: the frame is dropped, the estimator keeps what was
\* assigned so far
Raise(status) ==
    /\ ClearFrame
    /\ fit' = [NoFit EXCEPT !.status = status]
    /\ ret' = NoRet
    /\ UNCHANGED fitted

\* ------------------------------------------------------------ configurations
InitTags == {"kmeans", "random", "error", "bogus"}
\* tolerances on the grid of lower bounds: never met, met by an unchanged
\* lower bound, met by a change of one step
Tols == {0, 1, 2}
Weights == {0, 1}
\* the restart and iteration logic, with one and with several components
DriverConfigs ==
    [n_components : {1, MaxComponents},
     init_params : {"random"},
     n_init : 1..MaxNInit,
     max_iter : 1..MaxIter,
     tol : Tols,
     warm_start : {FALSE},
     weight_y_log_likelihood : {1}]
\* warm start: a fit call that continues from the previous one
WarmConfigs ==
    [n_components : {MaxComponents},
     init_params : {"random"},
     n_init : {1},
     max_iter : 1..MaxIter,
     tol : {1},
     warm_start : {TRUE},
     weight_y_log_likelihood : {1}]
\* every initialization tag with every number of components
InitConfigs ==
    [n_components : 1..MaxComponents,
     init_params : InitTags,
     n_init : {1},
     max_iter : {1},
     tol : {1},
     warm_start : {FALSE},
     weight_y_log_likelihood : {1}]
\* every label-likelihood weight
WeightConfigs ==
    [n_components : {MaxComponents},
     init_params : {"error"},
     n_init : {1},
     max_iter : {MaxIter},
     tol : {1},
     warm_start : {FALSE},
     weight_y_log_likelihood : Weights]
ConfigSpace ==
    DriverConfigs \cup WarmConfigs \cup InitConfigs \cup WeightConfigs

\* fit calls explored per estimator: a cold estimator starts every call from
\* scratch, so repeated calls are explored for warm-start estimators
FitBudget == IF warm_start THEN MaxFits ELSE 1

InitWith(c) ==
    /\ n_components = c.n_components
    /\ init_params = c.init_params
    /\ n_init = c.n_init
    /\ max_iter = c.max_iter
    /\ tol = c.tol
    /\ warm_start = c.warm_start
    /\ weight_y_log_likelihood = c.weight_y_log_likelihood
    /\ params = NoParams
    /\ converged_ = "unset"
    /\ n_iter_ = 0
    /\ lower_bound_ = UnsetF
    /\ pc = "idle"
    /\ do_init = TRUE /\ num_classes = 0 /\ init = 0 /\ n_iter = 0
    /\ lower_bound = UnsetF /\ max_lower_bound = UnsetF
    /\ best_params = NoParams /\ best_n_iter = 0
    /\ data = "flat"
    /\ ret = NoRet
    /\ fit = NoFit
    /\ fitted = FALSE
    /\ before = [self |-> [params |-> NoParams, converged_ |-> "unset",
                            n_iter_ |-> 0, lower_bound_ |-> UnsetF],
                 y_cols |-> 0]
    /\ runs = <<>>
    /\ warned = FALSE
    /\ nfits = 0

\* no pure function is being applied
PureIdle == pure_fn = "none" /\ pure_in = <<>> /\ pure_out = <<>>

\* attributes bound to no array (address 0)
NoRefs == [weights_ |-> 0, means_ |-> 0, covariances_ |-> 0, y_probs |-> 0,
           y_hat_probs |-> 0, precisions_cholesky_ |-> 0]
\* no array has been allocated
HeapIdle ==
    /\ heap = <<>> /\ self_refs = NoRefs /\ best_refs = NoRefs
    /\ snapshot = NoParams

Init == (\E c \in ConfigSpace : InitWith(c)) /\ PureIdle /\ HeapIdle

\* ------------------------------------------------------------ fit_predict
\* fit_predict raising before it assigns anything: _preprocess_ys on a
\* y_hat of None, or the validation of X
FitPredictRejected(valid, ymax, yhat) ==
    /\ pc = "idle"
    /\ nfits < FitBudget
    /\ PreprocessYs(TRUE, ymax, yhat).raises \/ ~valid
    /\ nfits' = nfits + 1
    /\ runs' = <<>>
    /\ warned' = FALSE
    /\ before' = [self |-> SelfState,
                  y_cols |-> PreprocessYs(TRUE, ymax, yhat).y_cols]
    /\ Raise(IF PreprocessYs(TRUE, ymax, yhat).raises
             THEN "AttributeError" ELSE "ValidationError")
    /\ UNCHANGED <<pureVars, cfgVars, selfVars, data>>

\* fit_predict up to the restart loop, on data set d: converged_ is reset
\* and the loop starts
FitPredictEnter(ymax, yhat, d) ==
    /\ pc = "idle"
    /\ nfits < FitBudget
    /\ ~PreprocessYs(TRUE, ymax, yhat).raises
    /\ nfits' = nfits + 1
    /\ runs' = <<>>
    /\ warned' = FALSE
    /\ before' = [self |-> SelfState,
                  y_cols |-> PreprocessYs(TRUE, ymax, yhat).y_cols]
    /\ data' = d
    /\ do_init' = ~(warm_start /\ converged_ # "unset")
    /\ max_lower_bound' = NegInf
    /\ converged_' = "False"
    /\ num_classes' = PreprocessYs(TRUE, ymax, yhat).y_cols
    /\ init' = 0
    /\ pc' = "restart"
    /\ ret' = NoRet
    /\ fit' = [NoFit EXCEPT !.status = "running"]
    /\ UNCHANGED fitted
    /\ UNCHANGED <<pureVars, cfgVars, params, n_iter_, lower_bound_, n_iter,
                   lower_bound, best_params, best_n_iter>>


\* a restart starting from a finite lower bound
InitialLowerBoundZero == IF do_init THEN Fin(0) ELSE lower_bound_

\* the lower bound a restart starts from
InitialLowerBound == IF do_init THEN NegInf ELSE lower_bound_

\* the five arrays _estimate_parameters returns for responsibilities resp,
\* assigned together; precisions_cholesky_ is assigned after them
\* (y_hat_probs is a weighted average of y_hat: NaN when y_hat has NaN)
WithEstimates(d, p, resp) ==
    [p EXCEPT !.weights_ = resp, !.means_ = resp, !.covariances_ = resp,
              !.y_probs = resp,
              !.y_hat_probs = IF DataSets[d].y_hat_nan \/ HasNaN(resp)
                              THEN NaNRow(Len(resp)) ELSE resp]
WithCholesky(p, resp) == [p EXCEPT !.precisions_cholesky_ = resp]

\* start of one restart: _initialize_parameters and _initialize when do_init,
\* then the initial lower bound.  chol_ok: _compute_precision_cholesky
\* accepts the covariances.
StartRestart(resp, chol_ok) ==
    /\ pc = "restart"
    /\ UNCHANGED <<pureVars, cfgVars, converged_, n_iter_, lower_bound_, data,
                   before, runs, warned, nfits>>
    /\ IF do_init
       THEN IF InitializeParametersCheck(init_params, n_components,
                                         num_classes) # "ok"
            THEN /\ resp = OneHotRow(n_components, n_components) /\ chol_ok
                 /\ Raise("ConfigError")
                 /\ UNCHANGED params
            ELSE /\ resp \in InitResps(init_params, n_components)
                 /\ IF chol_ok
                    THEN /\ params' = WithCholesky(WithEstimates(data, params, resp),
                                                   resp)
                         /\ lower_bound' = InitialLowerBound
                         /\ n_iter' = 0
                         /\ pc' = "em"
                         /\ UNCHANGED <<do_init, num_classes, init,
                                        max_lower_bound, best_params,
                                        best_n_iter, ret, fit, fitted>>
                    ELSE /\ params' = WithEstimates(data, params, resp)
                         /\ Raise("NumericalError")
       ELSE /\ resp = OneHotRow(n_components, n_components) /\ chol_ok
            /\ UNCHANGED params
            /\ IF lower_bound_ = UnsetF
               THEN Raise("AttributeError")
               ELSE /\ lower_bound' = InitialLowerBound
                    /\ n_iter' = 0
                    /\ pc' = "em"
                    /\ UNCHANGED <<do_init, num_classes, init,
                                   max_lower_bound, best_params, best_n_iter,
                                   ret, fit, fitted>>


\* convergence declared also when the change equals the tolerance
DeclaresConvergenceLe(change, t) == ~FGt(FAbs(change), Fin(t)) /\ change.k # "nan"

\* the convergence test of one EM iteration
DeclaresConvergence(change, t) == FLt(FAbs(change), Fin(t))

\* one EM iteration: E-step on the current parameters, M-step from its
\* responsibilities, the new lower bound and the convergence test
EMIteration(chol_ok) ==
    /\ pc = "em"
    /\ n_iter < max_iter
    /\ UNCHANGED <<pureVars, cfgVars, n_iter_, lower_bound_, data, before, warned,
                   nfits>>
    /\ IF ~EStepReadable(params, TRUE, TRUE)
       THEN /\ chol_ok
            /\ Raise("AttributeError")
            /\ UNCHANGED <<params, converged_, runs>>
       ELSE LET e == EStep(data, params, weight_y_log_likelihood)
                resp == Exp(e.log_resp)
                change == FSub(e.log_prob_norm, lower_bound)
            IN  IF ~chol_ok
                THEN /\ params' = WithEstimates(data, params, resp)
                     /\ Raise("NumericalError")
                     /\ UNCHANGED <<converged_, runs>>
                ELSE /\ params' = WithCholesky(WithEstimates(data, params, resp),
                                               resp)
                     /\ n_iter' = n_iter + 1
                     /\ lower_bound' = e.log_prob_norm
                     /\ runs' = IF n_iter = 0
                                THEN Append(runs, [start |-> lower_bound,
                                         lbs |-> <<e.log_prob_norm>>,
                                         params |-> params'])
                                ELSE [runs EXCEPT ![Len(runs)] =
                                         [start |-> @.start,
                                          lbs |-> Append(@.lbs,
                                                     e.log_prob_norm),
                                          params |-> params']]
                     /\ IF DeclaresConvergence(change, tol)
                        THEN converged_' = "True" /\ pc' = "select"
                        ELSE /\ UNCHANGED converged_
                             /\ pc' = IF n_iter + 1 = max_iter
                                      THEN "select" ELSE "em"
                     /\ UNCHANGED <<do_init, num_classes, init,
                                    max_lower_bound, best_params,
                                    best_n_iter, ret, fit, fitted>>


\* a restart adopted also when it only equals the best so far
AdoptsOrEqual(lb, best_lb) == FGt(lb, best_lb) \/ lb = best_lb

\* whether a finished restart replaces the running best snapshot
Adopts(lb, best_lb) == FGt(lb, best_lb)

\* end of one restart: the best-so-far snapshot and the loop step
SelectBest ==
    /\ pc = "select"
    /\ UNCHANGED <<pureVars, cfgVars, selfVars, data, obsVars, do_init,
                   num_classes, n_iter, lower_bound>>
    /\ IF Adopts(lower_bound, max_lower_bound)
       THEN /\ max_lower_bound' = lower_bound
            /\ best_params' = GetParameters
            /\ best_n_iter' = n_iter
       ELSE UNCHANGED <<max_lower_bound, best_params, best_n_iter>>
    /\ init' = init + 1
    /\ pc' = IF init + 1 < (IF do_init THEN n_init ELSE 1)
             THEN "restart" ELSE "finish"


\* the final E-step evaluated before the best parameters are restored
FinalEStepInputStale(restored) == params

\* the parameters the final E-step of fit_predict is evaluated on
FinalEStepInput(restored) == restored

\* after the loop: the warning, _set_parameters(best_params), n_iter_ and
\* lower_bound_, the final E-step and the returned labels
FinishFit ==
    /\ pc = "finish"
    /\ UNCHANGED <<pureVars, cfgVars, converged_, data, before, runs, nfits>>
    /\ warned' = (converged_ # "True")
    /\ IF best_n_iter = 0
       THEN /\ Raise("UnboundLocalError")
            /\ UNCHANGED <<params, n_iter_, lower_bound_>>
       ELSE /\ params' = best_params
            /\ n_iter_' = best_n_iter
            /\ lower_bound_' = max_lower_bound
            /\ ClearFrame
            /\ ret' = NoRet
            /\ fitted' = TRUE
            /\ fit' = [status |-> "ok",
                       labels |-> Argmax(EStep(data,
                           FinalEStepInput(best_params),
                           weight_y_log_likelihood).log_resp)]

\* ------------------------------------------------------------ predict_proba
\* what predict_proba(X, y, y_hat) ends with: label preprocessing comes
\* first, then check_is_fitted, the read of means_, and the attributes and
\* shapes the log-responsibilities need
PredictProbaStatus(yGiven, yhat) ==
    LET pre == PreprocessYs(yGiven, 0, yhat)
    IN  IF pre.raises THEN "AttributeError"
        ELSE IF ~IsFitted THEN "NotFittedError"
        ELSE IF params.means_ = Unset THEN "AttributeError"
        ELSE IF ~EStepReadable(params, yGiven, pre.y_hat # "none")
        THEN "AttributeError"
        ELSE IF pre.y_hat = "1d" THEN "ShapeError"
        ELSE "ok"

\* predict_proba on the X, y, y_hat of the last fit call, with y and y_hat
\* each given or omitted
PredictProba(yGiven, yhat) ==
    /\ pc = "idle"
    /\ UNCHANGED <<pureVars, cfgVars, selfVars, frameVars, data, fit, fitted, before,
                   runs, warned, nfits>>
    /\ LET status == PredictProbaStatus(yGiven, yhat)
       IN  IF status # "ok"
           THEN ret' = [NoRet EXCEPT !.op = "predict_proba",
                           !.status = status, !.y = yGiven, !.y_hat = yhat]
           ELSE ret' = [NoRet EXCEPT
                           !.op = "predict_proba",
                           !.resp = Exp(EstimateLogProbResp(data, params,
                               weight_y_log_likelihood, yGiven,
                               yhat # "none").log_resp),
                           !.y = yGiven, !.y_hat = yhat]

YHatForms == {"none", "1d", "2d"}

Next ==
    \/ /\ \E valid \in BOOLEAN, ymax \in 0..MaxYLabel, yhat \in YHatForms :
              FitPredictRejected(valid, ymax, yhat)
       /\ UNCHANGED heapVars
    \/ /\ \E ymax \in 0..MaxYLabel, yhat \in YHatForms, d \in DataNames :
              FitPredictEnter(ymax, yhat, d)
       /\ UNCHANGED heapVars
    \/ /\ \E resp \in InitResps("kmeans", n_components)
                      \cup InitResps("random", n_components),
             chol_ok \in BOOLEAN :
              StartRestart(resp, chol_ok)
       /\ UNCHANGED heapVars
    \/ /\ \E chol_ok \in BOOLEAN : EMIteration(chol_ok)
       /\ UNCHANGED heapVars
    \/ SelectBest /\ UNCHANGED heapVars
    \/ FinishFit /\ UNCHANGED heapVars
    \/ /\ \E yGiven \in BOOLEAN, yhat \in YHatForms : PredictProba(yGiven, yhat)
       /\ UNCHANGED heapVars

Spec == Init /\ [][Next]_vars

\* ------------------------------------------------------------ claims
FitOk == pc = "idle" /\ fit.status = "ok"
FinalLB(r) == r.lbs[Len(r.lbs)]

C2_BestRestartIsRestored ==
    FitOk =>
        \E i \in 1..Len(runs) :
            /\ \A j \in 1..Len(runs) : ~FGt(FinalLB(runs[j]), FinalLB(runs[i]))
            /\ \A j \in 1..(i - 1) : FinalLB(runs[j]) # FinalLB(runs[i])
            /\ params = runs[i].params
            /\ n_iter_ = Len(runs[i].lbs)
            /\ lower_bound_ = FinalLB(runs[i])
            /\ lower_bound_.k = "fin"

\* C2 witness: two restarts ended with equal lower bounds and different
\* parameters, and the first one was restored.
C2_Witness ==
    /\ FitOk /\ Len(runs) = 2
    /\ FinalLB(runs[1]) = FinalLB(runs[2])
    /\ runs[1].params # runs[2].params
    /\ params = runs[1].params

\* whether restart record r declared convergence at some iteration
RunConverged(r) ==
    \E j \in 1..Len(r.lbs) :
        LET prev == IF j = 1 THEN r.start ELSE r.lbs[j - 1]
            change == FSub(r.lbs[j], prev)
        IN  change.k = "fin" /\ (IF change.v < 0 THEN 0 - change.v
                                 ELSE change.v) < tol

\* C3: after fit, converged_ is True exactly when some restart of the call
\* declared convergence, and the warning was emitted exactly when none did.
C3_ConvergedIffSomeRestartConverged ==
    FitOk =>
        /\ (converged_ = "True") <=> (\E i \in 1..Len(runs) : RunConverged(runs[i]))
        /\ warned <=> ~(\E i \in 1..Len(runs) : RunConverged(runs[i]))

\* C3 witness: the first restart converged, the second did not and was the
\* one restored.
C3_Witness ==
    /\ FitOk /\ Len(runs) = 2
    /\ RunConverged(runs[1]) /\ ~RunConverged(runs[2])
    /\ params = runs[2].params /\ params # runs[1].params
    /\ converged_ = "True"

\* a fit call has ended, normally or with an error
FitEnded == pc = "idle" /\ fit.status \notin {"none", "running"}
\* restarts the last fit call was to run
RestartsDue ==
    IF warm_start /\ before.self.converged_ # "unset" THEN 1 ELSE n_init
\* every restart ran max_iter iterations and none declared convergence
AllRestartsExhausted ==
    /\ Len(runs) = RestartsDue
    /\ \A i \in 1..Len(runs) :
           Len(runs[i].lbs) = max_iter /\ ~RunConverged(runs[i])

C5_NotFittedErrorBeforeFit ==
    (ret.op = "predict_proba" /\ ~fitted) => ret.status = "NotFittedError"

\* C5 witness: predict_proba with proper labels after a fit call that
\* aborted with a configuration error did not fail with the not-fitted error.
C5_Witness ==
    /\ ret.op = "predict_proba" /\ ~fitted
    /\ fit.status = "ConfigError"
    /\ ret.y /\ ret.y_hat = "2d"
    /\ ret.status = "AttributeError"

\* C6: when fit raises a configuration error, the estimator is in the state
\* it had before the call.
C6_ConfigErrorLeavesEstimatorUntouched ==
    (pc = "idle" /\ fit.status = "ConfigError") => SelfState = before.self

\* C6 witness: a configuration error was raised by a fit call that had
\* already created converged_.
C6_Witness ==
    /\ pc = "idle" /\ fit.status = "ConfigError"
    /\ before.self.converged_ = "unset"
    /\ converged_ = "False"
    /\ params = before.self.params

\* a tuple whose six arrays come from one initialization or one M-step
ProducedTogether(p) ==
    /\ p.weights_ # Unset
    /\ p = WithCholesky(WithEstimates(data, p, p.weights_), p.weights_)

\* C7: whenever fit has returned or aborted, the parameter tuple is the one
\* held before the call or one produced together by a single initialization
\* or M-step.
C7_ParameterTupleNeverPartial ==
    FitEnded => (params = before.self.params \/ ProducedTogether(params))

\* C7 witness: fit aborted inside an M-step or initialization with five new
\* arrays and the precision factors of an earlier tuple.
C7_Witness ==
    /\ FitEnded /\ fit.status = "NumericalError"
    /\ params.means_ # before.self.params.means_
    /\ params.precisions_cholesky_ # params.means_

\* C8: after a successful fit, predict_proba succeeds for each combination of
\* given and omitted y and y_hat, and returns the responsibilities computed
\* from exactly the label terms given.
C8_LabelsOptionalInPredictProba ==
    (FitOk /\ ret.op = "predict_proba")
        => /\ ret.status = "ok"
           /\ ret.resp = Exp(EstimateLogProbResp(data, params,
                  weight_y_log_likelihood, ret.y,
                  ret.y_hat # "none").log_resp)

\* C8 witness: predict_proba with y given and y_hat omitted failed on a
\* fitted estimator.
C8_Witness ==
    /\ FitOk /\ ret.op = "predict_proba"
    /\ ret.y /\ ret.y_hat = "none"
    /\ ret.status = "AttributeError"

\* C9: fit with "error" initialization fails when n_components is below the
\* square of the number of label columns, and does not raise the
\* configuration error otherwise.
C9_ErrorInitNeedsSquareOfClasses ==
    (FitEnded /\ init_params = "error")
        => /\ (n_components < before.y_cols * before.y_cols)
                  => fit.status # "ok"
           /\ (n_components >= before.y_cols * before.y_cols)
                  => fit.status # "ConfigError"

\* C9 witness: fit succeeded with "error" initialization and exactly
\* num_classes^2 components.
C9_Witness ==
    /\ FitOk /\ init_params = "error"
    /\ before.y_cols = 2
    /\ n_components = before.y_cols * before.y_cols

\* C10: with one component a fresh fit declares convergence at its first
\* EM iteration: converged_ is True and n_iter_ is 1.
C10_OneComponentConvergesInOneStep ==
    (FitOk /\ n_components = 1 /\ before.self.converged_ = "unset")
        => (converged_ = "True" /\ n_iter_ = 1)

\* C10 amended: with one component a fresh fit never declares convergence at
\* its first iteration; it declares it at the second iteration exactly when
\* tol > 0 and max_iter >= 2, and otherwise stops unconverged at max_iter.
C10_OneComponentConvergesAtSecondIteration ==
    (FitOk /\ n_components = 1 /\ before.self.converged_ = "unset")
        => /\ (converged_ = "True") <=> (tol > 0 /\ max_iter >= 2)
           /\ (converged_ = "True") => n_iter_ = 2
           /\ (converged_ # "True") => n_iter_ = max_iter
           /\ \A i \in 1..Len(runs) : runs[i].start = NegInf

\* C10 witness: a fresh one-component fit converged with n_iter_ = 2.
C10_Witness ==
    /\ FitOk /\ n_components = 1 /\ before.self.converged_ = "unset"
    /\ converged_ = "True" /\ n_iter_ = 2
    /\ runs[1].lbs[1] = runs[1].lbs[2]

\* ------------------------------------------------------------ pure functions
\* Pure functions of the module are applied once to an argument drawn from
\* a bounded set; the estimator stays as constructed.
MaxMass == 3

\* fixed point of a probability: 1.0, and the tolerance 1e-6
ProbUnit == 10^8
RowSumTol == ProbUnit \div 10^6

\* A weighted log-probability is represented exactly, by the ratio num/den
\* whose logarithm it is; log 0 is -inf.
LogOf(m) == [k |-> "fin", num |-> m, den |-> 1]
LogNegInf == [k |-> "ninf", num |-> 0, den |-> 1]
LogPosInf == [k |-> "pinf", num |-> 0, den |-> 1]
LogNaN == [k |-> "nan", num |-> 0, den |-> 1]
LogValues == {LogNaN, LogNegInf} \cup {LogOf(m) : m \in 1..MaxMass}
LogRows == UNION {[1..K -> LogValues] : K \in 1..MaxComponents}

RECURSIVE MassUpTo(_, _)
MassUpTo(a, j) == IF j = 0 THEN 0 ELSE a[j].num + MassUpTo(a, j - 1)

\* scipy logsumexp over a row: NaN propagates, a row of -inf gives -inf
ExactLogSumExp(a) ==
    IF \E j \in 1..Len(a) : a[j].k = "nan" THEN LogNaN
    ELSE IF \A j \in 1..Len(a) : a[j].k = "ninf" THEN LogNegInf
    ELSE LogOf(MassUpTo(a, Len(a)))

\* x - y on logarithms, y the logarithm of an integer or -inf
LogSub(x, y) ==
    CASE x.k = "nan" \/ y.k = "nan" -> LogNaN
      [] x.k = "ninf" /\ y.k = "ninf" -> LogNaN
      [] x.k = "ninf" -> LogNegInf
      [] y.k = "ninf" -> LogPosInf
      [] OTHER -> [k |-> "fin", num |-> x.num, den |-> y.num]

\* np.exp of a logarithm, truncated to the fixed point
ExactExp(x) ==
    CASE x.k = "nan" -> NaN
      [] x.k = "ninf" -> Fin(0)
      [] x.k = "pinf" -> PosInf
      [] OTHER -> Fin((ProbUnit * x.num) \div x.den)

\* _estimate_log_prob_resp on one row of weighted log-probabilities, followed
\* by the np.exp of predict_proba and of _m_step
RespOfWeightedLogProb(wlp) ==
    LET log_prob_norm == ExactLogSumExp(wlp)
        log_resp == [j \in 1..Len(wlp) |-> LogSub(wlp[j], log_prob_norm)]
    IN  [j \in 1..Len(wlp) |-> ExactExp(log_resp[j])]

RECURSIVE SumUpTo(_, _)
SumUpTo(r, j) == IF j = 0 THEN 0 ELSE r[j].v + SumUpTo(r, j - 1)

\* a row of responsibilities sums to 1 within the tolerance
RowSumsToOne(r) ==
    /\ \A j \in 1..Len(r) : r[j].k = "fin"
    /\ SumUpTo(r, Len(r)) - ProbUnit <= RowSumTol
    /\ ProbUnit - SumUpTo(r, Len(r)) <= RowSumTol

LogProbRespInputs == {[fn |-> "log_prob_resp", wlp |-> a] : a \in LogRows}

\* responsibilities of one sample from its weighted log-probabilities
ApplyLogProbResp ==
    /\ pure_fn = "none"
    /\ pure_in \in LogProbRespInputs
    /\ pure_fn' = pure_in.fn
    /\ pure_out' = RespOfWeightedLogProb(pure_in.wlp)
    /\ UNCHANGED <<pure_in, fitVars, heapVars>>

\* ---- "error" initialization: the responsibilities before the jitter
MaxTileComponents == 9
MaxProb == 2

\* number of columns label_binarize and the y_hat expansion can give
ClassCounts == 2..(MaxYLabel + 1)

\* flattened outer product of a one-hot y (class c of C) and a y_hat row
OuterProduct(C, c, y_hat) ==
    [m \in 1..(C * Len(y_hat)) |->
        IF (m - 1) \div Len(y_hat) = c - 1
        THEN y_hat[((m - 1) % Len(y_hat)) + 1] ELSE 0]

\* a block counted once too few when n_components is not a multiple
TileCountFloor(K, C) == K \div (C * C)

\* how many times the block is repeated
TileCount(K, C) == K \div (C * C) + (IF K % (C * C) > 0 THEN 1 ELSE 0)

\* np.concatenate([resp] * reps, axis=1)[:, :K]
TileThenTruncate(block, reps, K) ==
    LET n == Len(block)
        len == IF reps * n < K THEN reps * n ELSE K
    IN  [j \in 1..len |-> block[((j - 1) % n) + 1]]

RECURSIVE RowTotal(_, _)
RowTotal(r, j) == IF j = 0 THEN 0 ELSE r[j] + RowTotal(r, j - 1)

\* the "error" branch of _initialize_parameters for one sample: the check
\* of n_components, the tiled and truncated row, its sum (the divisor of
\* the first normalization) and whether the jitter of n_components columns
\* can be added
ErrorInitRow(K, C, c, y_hat) ==
    IF ErrorInitTooFewComponents(K, C)
    THEN [status |-> "ConfigError", resp |-> <<>>, total |-> 0]
    ELSE LET resp == TileThenTruncate(OuterProduct(C, c, y_hat),
                                      TileCount(K, C), K)
         IN  [status |-> IF Len(resp) = K THEN "ok" ELSE "ShapeError",
              resp |-> resp,
              total |-> RowTotal(resp, Len(resp))]

ErrorInitInputs ==
    {[fn |-> "error_init", K |-> K, C |-> C, c |-> c, y_hat |-> r] :
        K \in 1..MaxTileComponents, C \in ClassCounts, c \in ClassCounts,
        r \in UNION {[1..n -> 0..MaxProb] : n \in ClassCounts}}

\* "error" initialization of the row of one sample whose label is class
\* c - 1 of C
ApplyErrorInit ==
    /\ pure_fn = "none"
    /\ pure_in \in ErrorInitInputs
    /\ pure_in.c <= pure_in.C
    /\ pure_fn' = pure_in.fn
    /\ pure_out' = ErrorInitRow(pure_in.K, pure_in.C, pure_in.c, pure_in.y_hat)
    /\ UNCHANGED <<pure_in, fitVars, heapVars>>

PureInputs == LogProbRespInputs \cup ErrorInitInputs

PureInit ==
    /\ InitWith(CHOOSE c \in WeightConfigs : c.weight_y_log_likelihood = 1)
    /\ pure_fn = "none"
    /\ pure_in \in PureInputs
    /\ pure_out = <<>>
    /\ HeapIdle

PureNext ==
    \/ ApplyLogProbResp
    \/ ApplyErrorInit

PureSpec == PureInit /\ [][PureNext]_vars

\* C11: every row of responsibilities computed from a row of weighted
\* log-probabilities sums to 1 within 1e-6.
C11_EveryRowSumsToOne ==
    pure_fn = "log_prob_resp" => RowSumsToOne(pure_out)

\* C11 witness: a row whose weighted log-probabilities are all finite except
\* one NaN gives responsibilities that are all NaN.
C11_Witness ==
    /\ pure_fn = "log_prob_resp"
    /\ Len(pure_in.wlp) = MaxComponents
    /\ Cardinality({j \in 1..Len(pure_in.wlp) : pure_in.wlp[j].k = "nan"}) = 1
    /\ \A j \in 1..Len(pure_out) : pure_out[j].k = "nan"

\* rows without NaN that have a finite entry do sum to 1
FiniteRowsSumToOne ==
    (/\ pure_fn = "log_prob_resp"
     /\ \A j \in 1..Len(pure_in.wlp) : pure_in.wlp[j].k # "nan"
     /\ \E j \in 1..Len(pure_in.wlp) : pure_in.wlp[j].k = "fin")
        => RowSumsToOne(pure_out)

\* E-step of an embedding-only Gaussian mixture on parameters p: the
\* log-likelihood and the responsibilities, from the embedding and
\* mixture-weight terms alone
GaussianMixtureEStep(d, p) ==
    LET a == EstimateLogProbAndWeights(d, p)
    IN  [log_prob_norm |-> LogSumExp(a),
         resp |-> Exp(RowSubScalar(a, LogSumExp(a)))]

\* C12: with weight_y_log_likelihood = 0 and labels free of NaN, every EM
\* iteration computes the lower bound and the responsibilities of an
\* embedding-only Gaussian mixture on the same parameters, and the weights,
\* means and covariances of its M-step are those estimated from them.
C12_WeightZeroIsEmbeddingOnlyEM ==
    [][(/\ pc = "em"
        /\ weight_y_log_likelihood = 0
        /\ ~DataSets[data].y_hat_nan
        /\ EStepReadable(params, TRUE, TRUE))
           => LET g == GaussianMixtureEStep(data, params)
              IN  /\ params'.weights_ = g.resp
                  /\ params'.means_ = g.resp
                  /\ params'.covariances_ = g.resp
                  /\ (pc' # "idle") => lower_bound' = g.log_prob_norm]_vars

\* C12 witness: a fit with weight 0 has returned after two iterations on
\* data whose label terms would have changed the responsibilities had they
\* been weighted.
C12_Witness ==
    /\ FitOk /\ weight_y_log_likelihood = 0 /\ n_iter_ = 2
    /\ params.means_ = GaussianMixtureEStep(data, params).resp
    /\ Exp(EStep(data, params, 1).log_resp)
           # GaussianMixtureEStep(data, params).resp

\* ------------------------------------------------------------ array identity
\* The restart loop with the identity of the parameter arrays: each array is
\* an address in heap, holding the value it was computed as (val) and the
\* number of in-place divisions by n_samples applied to it (div).
Array(v, d) == [val |-> v, div |-> d]
EstimatedFields ==
    <<"weights_", "means_", "covariances_", "y_probs", "y_hat_probs">>
CholeskyField == <<"precisions_cholesky_">>

\* the contents of the arrays a tuple of attributes is bound to
Deref(h, refs) ==
    [f \in DOMAIN refs |-> IF refs[f] = 0 THEN Unset ELSE h[refs[f]]]
\* the values of a tuple of arrays
ValuesOf(t) ==
    [f \in DOMAIN t |-> IF t[f] = Unset THEN Unset ELSE t[f].val]

\* an assignment writing the new value into the array already bound
BindTargetInPlace(fresh, old) == IF old = 0 THEN fresh ELSE old

\* the array an assignment "self.attr = <new array>" binds the attribute to:
\* the newly created array fresh, whatever array old it was bound to
BindTarget(fresh, old) == fresh

\* self.f = <new array of value p[f]> for each field f of fs, the weights
\* array having been divided d times
Assign(h, refs, fs, p, d) ==
    LET n == Len(fs)
        target(i) == BindTarget(Len(h) + i, refs[fs[i]])
        value(i) == Array(p[fs[i]], IF fs[i] = "weights_" THEN d ELSE 0)
    IN  [heap |-> [a \in 1..(Len(h) + n) |->
                      IF \E i \in 1..n : target(i) = a
                      THEN value(CHOOSE i \in 1..n : target(i) = a)
                      ELSE IF a <= Len(h) THEN h[a] ELSE Array(Unset, 0)],
         refs |-> [f \in DOMAIN refs |->
                      IF \E i \in 1..n : fs[i] = f
                      THEN target(CHOOSE i \in 1..n : fs[i] = f)
                      ELSE refs[f]]]

\* self.weights_ /= n_samples: the array weights_ is bound to, in place
DivideInPlace(h, refs) ==
    [h EXCEPT ![refs.weights_] = Array(@.val, @.div + 1)]

\* _initialize: weights is divided before it is bound
HeapInitialize(chol_ok) ==
    IF do_init /\ InitializeParametersCheck(init_params, n_components,
                                            num_classes) = "ok"
    THEN \E a \in {Assign(heap, self_refs, EstimatedFields, params', 1)} :
         \E b \in {IF chol_ok
                   THEN Assign(a.heap, a.refs, CholeskyField, params', 0)
                   ELSE a} :
             /\ heap' = b.heap /\ self_refs' = b.refs
             /\ UNCHANGED <<best_refs, snapshot>>
    ELSE UNCHANGED heapVars

\* _m_step: five attributes bound, weights_ divided in place, then
\* precisions_cholesky_ bound
HeapMStep(chol_ok) ==
    IF EStepReadable(params, TRUE, TRUE)
    THEN \E a \in {Assign(heap, self_refs, EstimatedFields, params', 0)} :
         \E h \in {DivideInPlace(a.heap, a.refs)} :
         \E b \in {IF chol_ok
                   THEN Assign(h, a.refs, CholeskyField, params', 0)
                   ELSE [heap |-> h, refs |-> a.refs]} :
             /\ heap' = b.heap /\ self_refs' = b.refs
             /\ UNCHANGED <<best_refs, snapshot>>
    ELSE UNCHANGED heapVars

\* best_params = self._get_parameters(): a tuple of the arrays themselves
HeapGetParameters ==
    IF Adopts(lower_bound, max_lower_bound)
    THEN /\ best_refs' = self_refs
         /\ snapshot' = Deref(heap, self_refs)
         /\ UNCHANGED <<heap, self_refs>>
    ELSE UNCHANGED heapVars

\* self._set_parameters(best_params): the attributes are bound to the
\* arrays of the tuple
HeapSetParameters ==
    IF best_n_iter = 0 THEN UNCHANGED heapVars
    ELSE self_refs' = best_refs /\ UNCHANGED <<heap, best_refs, snapshot>>

HeapInit == (\E c \in DriverConfigs : InitWith(c)) /\ PureIdle /\ HeapIdle

HeapNext ==
    \/ /\ \E ymax \in 0..MaxYLabel, d \in DataNames :
              FitPredictEnter(ymax, "2d", d)
       /\ UNCHANGED heapVars
    \/ \E resp \in InitResps("random", n_components), chol_ok \in BOOLEAN :
           StartRestart(resp, chol_ok) /\ HeapInitialize(chol_ok)
    \/ \E chol_ok \in BOOLEAN : EMIteration(chol_ok) /\ HeapMStep(chol_ok)
    \/ SelectBest /\ HeapGetParameters
    \/ FinishFit /\ HeapSetParameters

HeapSpec == HeapInit /\ [][HeapNext]_vars

\* the arrays of the snapshot hold what they held when it was taken, and a
\* returning fit leaves the estimator bound to exactly those arrays
SnapshotIntact ==
    /\ (best_refs # NoRefs) => Deref(heap, best_refs) = snapshot
    /\ (best_refs # NoRefs /\ pc # "idle") => ValuesOf(snapshot) = best_params
    /\ FitOk => /\ self_refs = best_refs
                /\ ValuesOf(Deref(heap, self_refs)) = params
                /\ Deref(heap, self_refs).weights_.div = 1

\* C13 as stated: the best-parameter snapshot is the only state crossing
\* restart boundaries (what a restart leaves on the estimator, converged_
\* included, is the outcome of that restart alone), and no later restart
\* changes the snapshot.
C13_SnapshotIsOnlyStateAcrossRestarts ==
    /\ SnapshotIntact
    /\ (pc = "select" /\ Len(runs) > 0)
           => ((converged_ = "True") <=> RunConverged(runs[Len(runs)]))

\* C13 amended: no restart mutates an array held by the snapshot, so the
\* tuple restored at the end of fit is the tuple as it was snapshotted;
\* besides the snapshot, converged_ crosses restart boundaries: once a
\* restart has set it, it stays True through the later restarts.
C13_SnapshotNeverMutated ==
    /\ SnapshotIntact
    /\ (pc = "select" /\ Len(runs) > 0)
           => ((converged_ = "True")
                  <=> \E i \in 1..Len(runs) : RunConverged(runs[i]))

\* C13 witness: fit returned the snapshot of the first restart after a
\* second restart, not adopted, had initialized and run its M-steps on
\* arrays of its own with different contents.
C13_Witness ==
    /\ FitOk /\ Len(runs) = 2
    /\ params = runs[1].params /\ runs[2].params # runs[1].params
    /\ Deref(heap, self_refs) = snapshot
    /\ \E a \in 1..Len(heap) :
           /\ \A f \in DOMAIN best_refs : best_refs[f] # a
           /\ heap[a] = Array(runs[2].params.weights_, 1)

\* a probability row of as many columns as y: no negative entry and a
\* positive sum
ProperLabels(in) ==
    /\ Len(in.y_hat) = in.C
    /\ RowTotal(in.y_hat, Len(in.y_hat)) > 0

====
